---- MODULE Spec2Model ----
(***************************************************************************)
(* XSafe content script (class XSafeContentFilter): the scanning and       *)
(* concealment engine of the extension, with the page (DOM) and the        *)
(* background's settings pushes as its environment.                        *)
(*                                                                         *)
(* One action is one JavaScript task: a message handler, a timer callback  *)
(* or a page mutation runs to completion before the next one starts.       *)
(*                                                                         *)
(* XSafe background service worker (classes XSafeBackground,               *)
(* SettingsManager, StatsTracker) and popup (class XSafePopup): a call of  *)
(* an async method runs up to its next await in one action.                *)
(***************************************************************************)
EXTENDS Integers, Sequences, FiniteSets, TLC

VARIABLES
  elem,                 \* the page's elements, in document order: attributes the page owns
  removed,              \* elements the page has taken out of the tree (parentNode = null)
  style,                \* element.style.display / element.style.visibility
  xsafeId,              \* the data-xsafe-id attribute (0: absent, N: "xsafe-N")
  xsafeData,            \* element._xsafeData
  scanned,              \* elements carrying data-xsafe-scanned
  settings,             \* this.settings
  filteredElements,     \* this.filteredElements, a Set in insertion order
  isFiltering,          \* this.isFiltering
  uiElementCache,       \* this.uiElementCache, a Map in insertion order
  lastScanTime,         \* this.lastScanTime
  elementCounter,       \* this.elementCounter
  mutationObserver,     \* the number of connected MutationObservers; this.mutationObserver
                        \* is the newest of them, or null when there is none
  periodicScanInterval, \* this.periodicScanInterval: time of the next firing, or NoTimer
  liveIntervals,        \* the number of setInterval timers set and not cleared
  debounceTimeout,      \* the timeout of the connected observer's debounce closure:
                        \* its deadline, or NoTimer
  orphanTimeouts,       \* deadlines of the timeouts left pending in the debounce
                        \* closures of disconnected observers
  initPc,               \* where init() stands
  initTimeout,          \* the setTimeout of init(): its deadline, or NoTimer
  now,                  \* Date.now()
  updates,              \* UPDATE_FILTERS messages the background has sent
  newest,               \* the snapshot the background read last among those it has
                        \* delivered to this tab (reply or push), or Null
  mutations,            \* insertions and removals the page has made
  syncStorage,          \* chrome.storage.sync: the value stored under each key
  statsStorage,         \* chrome.storage.local: the value under 'xsafe_stats'
  calls,                \* the calls of XSafeBackground.handleMessage, in order of arrival
  popup                 \* the XSafePopup instance

contentVars == <<elem, removed, style, xsafeId, xsafeData, scanned, settings,
                 filteredElements, isFiltering, uiElementCache, lastScanTime,
                 elementCounter, mutationObserver, periodicScanInterval,
                 liveIntervals, debounceTimeout, orphanTimeouts, initPc,
                 initTimeout, now, updates, newest, mutations>>

backgroundVars == <<syncStorage, statsStorage, calls, popup>>

vars == <<contentVars, backgroundVars>>

envVars == <<elem, removed, updates, newest, mutations>>

----------------------------------------------------------------------------
(* Program constants                                                       *)

maxFilteredElements == 200
scanCooldown == 2000
periodicScanPeriod == 1000
debounceWait == 1000
initDelay == 2000
uiSizeThreshold == 80
uiCacheLimit == 500
scanNewContentLimit == 50

(* Bounds of the model                                                     *)

MaxTicks == 2        \* the clock stops after this many steps
MaxUpdates == 2      \* UPDATE_FILTERS messages in one run
MaxMutations == 1    \* page insertions and removals in one run
Overflow == 3        \* the large page holds maxFilteredElements + Overflow images
MaxBurst == 2        \* page insertions and removals in one run of a burst
MaxMessages == 2     \* messages the background receives in one run
MaxClicks == 2       \* clicks on the popup's whitelist button in one run

TickMs == periodicScanPeriod     \* the clock's step
MaxTime == scanCooldown + MaxTicks * TickMs

hostname == "x.com"
Domains == {hostname}

NoTimer == -1
NoData == [none |-> TRUE]
Null == [null |-> TRUE]
NoSrc == [host |-> "", path |-> 0]

----------------------------------------------------------------------------
(* Sequences as the insertion-ordered Set and Map of JavaScript            *)

Range(s) == {s[i] : i \in DOMAIN s}

SetAdd(s, x) == IF x \in Range(s) THEN s ELSE Append(s, x)

SetDelete(s, x) ==
  IF x \notin Range(s) THEN s
  ELSE LET i == CHOOSE j \in DOMAIN s : s[j] = x
       IN SubSeq(s, 1, i - 1) \o SubSeq(s, i + 1, Len(s))

\* (the key is evaluated once, then looked up)
MapHas(m, k) == \E key \in {k} : \E i \in DOMAIN m : m[i][1] = key

MapGet(m, k) == m[CHOOSE i \in DOMAIN m : m[i][1] = k][2]

MapSet(m, k, v) ==
  IF MapHas(m, k)
    THEN [i \in DOMAIN m |-> IF m[i][1] = k THEN <<k, v>> ELSE m[i]]
    ELSE Append(m, <<k, v>>)

----------------------------------------------------------------------------
(* The document                                                            *)

Nodes == DOMAIN elem

\* element.parentNode: null (0) for the root and for an element taken out of the tree
parentNode(n) == IF n \in removed THEN 0 ELSE elem[n].parent

RECURSIVE Ancestors(_)
Ancestors(n) ==
  IF parentNode(n) = 0 THEN {} ELSE {parentNode(n)} \cup Ancestors(parentNode(n))

Descendants(n) == {m \in Nodes : n \in Ancestors(m)}

\* document.contains(n)
InDocument(n) == n \notin removed /\ Ancestors(n) \cap removed = {}

\* the inline style the page itself gave the element
PageStyle(n) == [display |-> elem[n].display, visibility |-> elem[n].visibility]

\* getBoundingClientRect(): an element that is not rendered has an empty box
Rect(e, n) ==
  IF InDocument(n) /\ \A m \in {n} \cup Ancestors(n) : e.style[m].display # "none"
    THEN [width |-> elem[n].w, height |-> elem[n].h]
    ELSE [width |-> 0, height |-> 0]

\* s.includes(pat) on the src values of the model
SrcContains(src, pat) ==
  CASE pat = "youtube" -> src.host = "www.youtube.com"
    [] pat = "youtu.be" -> src.host = "youtu.be"
    [] pat = "vimeo" -> src.host = "player.vimeo.com"
    [] pat = "twimg" -> src.host \in {"pbs.twimg.com", "ton.twimg.com", "video.twimg.com"}
    [] pat = "" -> TRUE
    [] OTHER -> src.host = pat

\* s.includes(pat) on the alt and data-testid values of the model, case-sensitive
TextContains(s, pat) ==
  CASE pat = "avatar" -> s \in {"User avatar"}
    [] pat = "profile" -> s \in {"profile photo"}
    [] OTHER -> FALSE

\* s.toLowerCase().includes(pat)
LowerContains(s, pat) ==
  CASE pat = "avatar" -> s \in {"User avatar", "UserAvatar-Container", "Avatar"}
    [] pat = "profile" -> s \in {"profile photo", "Profile picture"}
    [] OTHER -> FALSE

----------------------------------------------------------------------------
(* Selectors                                                               *)

\* One compound selector: [anc] tag[data-testid][src*=...]:not([alt*=...])
Sel(anc, ancTag, tag, testid, src, notAlt, bg) ==
  [anc |-> anc, ancTag |-> ancTag, tag |-> tag, testid |-> testid,
   src |-> src, notAlt |-> notAlt, bg |-> bg]

Matches(sel, n) ==
  /\ sel.tag = "" \/ elem[n].tag = sel.tag
  /\ sel.testid = "" \/ elem[n].testid = sel.testid
  /\ sel.anc = "" \/ \E a \in Ancestors(n) : elem[a].testid = sel.anc
  /\ sel.ancTag = "" \/ \E a \in Ancestors(n) : elem[a].tag = sel.ancTag
  /\ sel.src = "" \/ (elem[n].src # NoSrc /\ SrcContains(elem[n].src, sel.src))
  /\ sel.notAlt =>
       ~TextContains(elem[n].alt, "avatar") /\ ~TextContains(elem[n].alt, "profile")
  /\ sel.bg => elem[n].bg

\* n is in document.querySelectorAll(<the selectors of sels, joined by commas>);
\* the list holds its elements in document order, the order of Nodes
querySelectorAll(sels, n) ==
  InDocument(n) /\ \E q \in sels : Matches(q, n)

videoSelector ==
  { Sel("", "", "VIDEO", "", "", FALSE, FALSE),
    Sel("", "", "", "videoPlayer", "", FALSE, FALSE),
    Sel("", "", "", "videoComponent", "", FALSE, FALSE),
    Sel("", "", "IFRAME", "", "youtube", FALSE, FALSE),
    Sel("", "", "IFRAME", "", "youtu.be", FALSE, FALSE),
    Sel("", "", "IFRAME", "", "vimeo", FALSE, FALSE) }

mediaSelectors ==
  << Sel("tweetPhoto", "", "IMG", "", "", FALSE, FALSE),
     Sel("media", "", "IMG", "", "", TRUE, FALSE),
     Sel("videoPlayer", "", "VIDEO", "", "", FALSE, FALSE),
     Sel("videoComponent", "", "VIDEO", "", "", FALSE, FALSE),
     Sel("", "", "VIDEO", "", "", FALSE, FALSE),
     Sel("card.layoutLarge.media", "", "IMG", "", "", FALSE, FALSE),
     Sel("card.layoutSmall.media", "", "IMG", "", "", FALSE, FALSE),
     Sel("photoGrid", "", "IMG", "", "", FALSE, FALSE),
     Sel("mediaContainer", "", "IMG", "", "", FALSE, FALSE),
     Sel("photoViewer", "", "IMG", "", "", FALSE, FALSE),
     Sel("", "ARTICLE", "IMG", "", "pbs.twimg.com", TRUE, FALSE),
     Sel("", "ARTICLE", "IMG", "", "ton.twimg.com", TRUE, FALSE),
     Sel("", "ARTICLE", "IMG", "", "video.twimg.com", FALSE, FALSE),
     Sel("media", "", "DIV", "", "", FALSE, TRUE),
     Sel("tweetPhoto", "", "DIV", "", "", FALSE, TRUE),
     Sel("", "", "IFRAME", "", "youtube", FALSE, FALSE),
     Sel("", "", "IFRAME", "", "vimeo", FALSE, FALSE),
     Sel("", "", "IFRAME", "", "twimg", FALSE, FALSE) >>

\* element.querySelector('video, iframe[src*="youtube"], iframe[src*="vimeo"]')
HasVideoDescendant(n) ==
  \E m \in Descendants(n) :
    \/ elem[m].tag = "VIDEO"
    \/ elem[m].tag = "IFRAME" /\ elem[m].src # NoSrc
         /\ (SrcContains(elem[m].src, "youtube") \/ SrcContains(elem[m].src, "vimeo"))

----------------------------------------------------------------------------
(* The engine's state as one value, threaded through the methods: e is     *)
(* `this` together with the engine-written parts of the elements           *)

Engine ==
  [settings |-> settings, fe |-> filteredElements, style |-> style, xid |-> xsafeId,
   xdata |-> xsafeData, cache |-> uiElementCache, counter |-> elementCounter,
   last |-> lastScanTime, scanned |-> scanned, filtering |-> isFiltering,
   observers |-> mutationObserver, periodic |-> periodicScanInterval,
   intervals |-> liveIntervals, debounce |-> debounceTimeout, orphans |-> orphanTimeouts]

\* the state an operation leaves (r: the engine it returns, evaluated once)
Commit(e) ==
  \E r \in {e} :
    /\ UNCHANGED backgroundVars
    /\ settings' = r.settings
    /\ filteredElements' = r.fe
    /\ style' = r.style
    /\ xsafeId' = r.xid
    /\ xsafeData' = r.xdata
    /\ uiElementCache' = r.cache
    /\ elementCounter' = r.counter
    /\ lastScanTime' = r.last
    /\ scanned' = r.scanned
    /\ isFiltering' = r.filtering
    /\ mutationObserver' = r.observers
    /\ periodicScanInterval' = r.periodic
    /\ liveIntervals' = r.intervals
    /\ debounceTimeout' = r.debounce
    /\ orphanTimeouts' = r.orphans

shouldFilterVideos(e) == e.settings.filterMode \in {"videos", "both"}

shouldFilterImages(e) == e.settings.filterMode \in {"images", "both"}

\* isWhitelisted with the allow list ignored
isWhitelistedNever(e, n) == FALSE

isWhitelisted(e, n) == hostname \in e.settings.whitelistedDomains

isBlacklisted(e, n) == hostname \in e.settings.blacklistedDomains

\* shouldFilter without the test of the intensity level
shouldFilterAlways(e, n, type) == TRUE

shouldFilter(e, n, type) ==
  IF e.settings.intensityLevel = "permissive" THEN FALSE
  ELSE IF isBlacklisted(e, n) THEN TRUE
  ELSE TRUE

\* replaceElement without the tests of parentNode and document.contains
replaceElementDetached(e, n, type) ==
  IF n = 0 THEN e
  ELSE LET id == e.counter + 1 IN
       [e EXCEPT !.counter = id,
                 !.xid[n] = id,
                 !.xdata[n] = [type |-> type,
                               originalDisplay |-> e.style[n].display,
                               originalVisibility |-> e.style[n].visibility,
                               elementId |-> id],
                 !.style[n] = [display |-> "none", visibility |-> "hidden"],
                 !.fe = SetAdd(e.fe, n)]

\* (0 stands for null)
replaceElement(e, n, type) ==
  IF n = 0 \/ n \in removed \/ ~InDocument(n) THEN e
  ELSE LET id == e.counter + 1 IN
       [e EXCEPT !.counter = id,
                 !.xid[n] = id,
                 !.xdata[n] = [type |-> type,
                               originalDisplay |-> e.style[n].display,
                               originalVisibility |-> e.style[n].visibility,
                               elementId |-> id],
                 !.style[n] = [display |-> "none", visibility |-> "hidden"],
                 !.fe = SetAdd(e.fe, n)]

\* filterVideo without the test of filteredElements.has(element)
filterVideoAgain(e, n) ==
  IF isWhitelisted(e, n) THEN e
  ELSE IF shouldFilter(e, n, "video") THEN replaceElement(e, n, "video")
  ELSE e

filterVideo(e, n) ==
  IF isWhitelisted(e, n) \/ n \in Range(e.fe) THEN e
  ELSE IF shouldFilter(e, n, "video") THEN replaceElement(e, n, "video")
  ELSE e

filterImage(e, n) ==
  IF isWhitelisted(e, n) \/ n \in Range(e.fe) THEN e
  ELSE IF shouldFilter(e, n, "image") THEN replaceElement(e, n, "image")
  ELSE e

filterBackgroundImage(e, n) ==
  IF isWhitelisted(e, n) \/ n \in Range(e.fe) THEN e
  ELSE IF shouldFilter(e, n, "image") THEN replaceElement(e, n, "image")
  ELSE e

\* element.src || element.outerHTML.substring(0, 100): without a src the key is
\* the element's opening tag, engine-written attributes included
cacheKey(e, n) ==
  IF elem[n].src # NoSrc
    THEN <<"src", elem[n].src.host, elem[n].src.path>>
    ELSE <<"outerHTML", elem[n].tag, elem[n].testid, elem[n].alt, elem[n].bg,
           e.xid[n], e.style[n], n \in e.scanned>>

\* the rules of isUIElement, the cache aside
uiRules(e, n) ==
  IF \/ elem[n].testid # "" /\ TextContains(elem[n].testid, "avatar")
     \/ elem[n].alt # "" /\ LowerContains(elem[n].alt, "avatar")
     \/ elem[n].alt # "" /\ LowerContains(elem[n].alt, "profile")
    THEN TRUE
    ELSE Rect(e, n).width < uiSizeThreshold /\ Rect(e, n).height < uiSizeThreshold

\* isUIElement: the value returned
isUIElement(e, n) ==
  IF MapHas(e.cache, cacheKey(e, n)) THEN MapGet(e.cache, cacheKey(e, n))
  ELSE uiRules(e, n)

\* isUIElement's cache when the result is not stored
isUIElementCacheNoStore(e, n) == e.cache

\* isUIElement's cache without the limit on its size
isUIElementCacheUnbounded(e, n) ==
  IF MapHas(e.cache, cacheKey(e, n)) THEN e.cache
  ELSE MapSet(e.cache, cacheKey(e, n), uiRules(e, n))

\* isUIElement's cache when a hit moves the entry to the end of the order
isUIElementCacheTouch(e, n) ==
  IF MapHas(e.cache, cacheKey(e, n))
    THEN LET i == CHOOSE j \in DOMAIN e.cache : e.cache[j][1] = cacheKey(e, n)
         IN SubSeq(e.cache, 1, i - 1) \o SubSeq(e.cache, i + 1, Len(e.cache))
              \o << e.cache[i] >>
  ELSE LET c == MapSet(e.cache, cacheKey(e, n), uiRules(e, n)) IN
       IF Len(c) > uiCacheLimit THEN Tail(c) ELSE c

\* isUIElement: the cache it leaves
isUIElementCache(e, n) ==
  IF MapHas(e.cache, cacheKey(e, n)) THEN e.cache
  ELSE LET c == MapSet(e.cache, cacheKey(e, n), uiRules(e, n)) IN
       IF Len(c) > uiCacheLimit THEN Tail(c) ELSE c

\* the reads of isUIElement that can fail on a node
Reads == {"signature", "attributes", "box"}

\* the rule's first branch: the markers in data-testid and alt
uiMarked(n) ==
  \/ elem[n].testid # "" /\ TextContains(elem[n].testid, "avatar")
  \/ elem[n].alt # "" /\ LowerContains(elem[n].alt, "avatar")
  \/ elem[n].alt # "" /\ LowerContains(elem[n].alt, "profile")

\* isUIElement when the read `failing` throws: whether that read was reached
\* (failed), whether the exception left the method (thrown), and the value
\* returned otherwise. The signature (src, outerHTML) is read first, before the
\* try block; the attributes and the bounding box are read inside it, the box
\* only in the else branch.
isUIElementFailing(e, n, failing) ==
  IF failing = "signature"
    THEN [failed |-> TRUE, thrown |-> TRUE, value |-> FALSE]
  ELSE IF MapHas(e.cache, cacheKey(e, n))
    THEN [failed |-> FALSE, thrown |-> FALSE, value |-> MapGet(e.cache, cacheKey(e, n))]
  ELSE IF failing = "attributes"
    THEN [failed |-> TRUE, thrown |-> FALSE, value |-> FALSE]
  ELSE IF uiMarked(n)
    THEN [failed |-> FALSE, thrown |-> FALSE, value |-> TRUE]
  ELSE [failed |-> TRUE, thrown |-> FALSE, value |-> FALSE]

isInsideFilteredContainer(e, n) ==
  \E p \in Ancestors(n) : p \in Range(e.fe) \/ e.xid[p] # 0

\* the body of elements.forEach in scanForIndividualMedia
filterMedia(e, n) ==
  LET e1 == [e EXCEPT !.cache = isUIElementCache(e, n)] IN
  IF ~isUIElement(e, n) /\ ~isInsideFilteredContainer(e1, n)
    THEN IF elem[n].tag = "IMG" THEN filterImage(e1, n)
         ELSE IF elem[n].tag \in {"VIDEO", "IFRAME"} THEN filterVideo(e1, n)
         ELSE IF elem[n].tag = "DIV" /\ elem[n].bg THEN filterBackgroundImage(e1, n)
         ELSE e1
    ELSE e1

\* elements.forEach of scanForIndividualMedia, over the elements lo..hi of the
\* document that the selector matches. The loops are split in halves, and the
\* first half is evaluated before the second is entered (elementCounter never
\* decreases, so the test on it always passes).
RECURSIVE filterMediaEach(_, _, _, _)
filterMediaEach(e, sel, lo, hi) ==
  IF lo > hi THEN e
  ELSE IF lo = hi
    THEN IF querySelectorAll({sel}, lo) THEN filterMedia(e, lo) ELSE e
  ELSE LET first == filterMediaEach(e, sel, lo, (lo + hi) \div 2)
       IN  IF first.counter >= e.counter
           THEN filterMediaEach(first, sel, (lo + hi) \div 2 + 1, hi)
           ELSE first

\* the body of mediaSelectors.forEach in scanForIndividualMedia
scanSelector(e, sel) == filterMediaEach(e, sel, 1, Len(elem))

\* mediaSelectors.forEach of scanForIndividualMedia, selectors lo..hi
RECURSIVE scanSelectorEach(_, _, _)
scanSelectorEach(e, lo, hi) ==
  IF lo > hi THEN e
  ELSE IF lo = hi THEN scanSelector(e, mediaSelectors[lo])
  ELSE LET first == scanSelectorEach(e, lo, (lo + hi) \div 2)
       IN  IF first.counter >= e.counter
           THEN scanSelectorEach(first, (lo + hi) \div 2 + 1, hi)
           ELSE first

scanForIndividualMedia(e) == scanSelectorEach(e, 1, Len(mediaSelectors))

scanForImages(e) == scanForIndividualMedia(e)

\* elements.forEach of scanForVideos, over the elements lo..hi of the document
RECURSIVE filterVideoEach(_, _, _)
filterVideoEach(e, lo, hi) ==
  IF lo > hi THEN e
  ELSE IF lo = hi
    THEN IF querySelectorAll(videoSelector, lo) THEN filterVideo(e, lo) ELSE e
  ELSE LET first == filterVideoEach(e, lo, (lo + hi) \div 2)
       IN  IF first.counter >= e.counter
           THEN filterVideoEach(first, (lo + hi) \div 2 + 1, hi)
           ELSE first

scanForVideos(e) == filterVideoEach(e, 1, Len(elem))

limitFilteredElements(e) ==
  IF Len(e.fe) > maxFilteredElements
    THEN [e EXCEPT !.fe = SubSeq(e.fe, Len(e.fe) - maxFilteredElements + 1, Len(e.fe))]
    ELSE e

canScan(e) == ~(now - e.last < scanCooldown)

\* scanExistingContent without the test of the cooldown
scanExistingContentAlways(e) ==
  LET e1 == limitFilteredElements([e EXCEPT !.last = now])
      e2 == IF shouldFilterVideos(e1) THEN scanForVideos(e1) ELSE e1
  IN IF shouldFilterImages(e2) THEN scanForImages(e2) ELSE e2

scanExistingContent(e) ==
  IF now - e.last < scanCooldown THEN e
  ELSE LET e1 == limitFilteredElements([e EXCEPT !.last = now])
           e2 == IF shouldFilterVideos(e1) THEN scanForVideos(e1) ELSE e1
       IN IF shouldFilterImages(e2) THEN scanForImages(e2) ELSE e2

checkForVideo(e, n) ==
  IF elem[n].tag \in {"VIDEO", "IFRAME"} \/ HasVideoDescendant(n)
    THEN filterVideo(e, n)
    ELSE e

checkForImage(e, n) ==
  IF elem[n].tag = "IMG"
    THEN LET e1 == [e EXCEPT !.cache = isUIElementCache(e, n)] IN
         IF ~isUIElement(e, n) THEN filterImage(e1, n) ELSE e1
    ELSE e

scanElement(e, n) ==
  LET e1 == IF shouldFilterVideos(e) THEN checkForVideo(e, n) ELSE e
  IN IF shouldFilterImages(e1) THEN checkForImage(e1, n) ELSE e1

\* the body of addedNodes.forEach in scanNewContent, below the pass limit
scanAndMark(e, n) ==
  LET e1 == scanElement(e, n) IN [e1 EXCEPT !.scanned = e1.scanned \cup {n}]

\* addedNodes.forEach of scanNewContent, over the elements lo..hi of the
\* document that are in the pass
RECURSIVE scanAndMarkEach(_, _, _, _)
scanAndMarkEach(e, pass, lo, hi) ==
  IF lo > hi THEN e
  ELSE IF lo = hi
    THEN IF lo \in pass THEN scanAndMark(e, lo) ELSE e
  ELSE LET first == scanAndMarkEach(e, pass, lo, (lo + hi) \div 2)
       IN  IF first.counter >= e.counter
           THEN scanAndMarkEach(first, pass, (lo + hi) \div 2 + 1, hi)
           ELSE first

\* scanNewContent without the limit on the nodes of a pass
scanNewContentUncapped(e) ==
  LET addedNodes == {x \in Nodes : InDocument(x) /\ x \notin e.scanned}
  IN scanAndMarkEach(e, addedNodes, 1, Len(elem))

\* scanNewContent with the selector '*', which matches marked nodes too
scanNewContentRescan(e) ==
  LET addedNodes == {x \in Nodes : InDocument(x)}
      pass == {x \in addedNodes :
                 Cardinality({y \in addedNodes : y < x}) < scanNewContentLimit}
  IN scanAndMarkEach(e, pass, 1, Len(elem))

\* document.querySelectorAll('*:not([data-xsafe-scanned])'), cut at the pass limit
scanNewContent(e) ==
  LET addedNodes == {x \in Nodes : InDocument(x) /\ x \notin e.scanned}
      pass == {x \in addedNodes :
                 Cardinality({y \in addedNodes : y < x}) < scanNewContentLimit}
  IN scanAndMarkEach(e, pass, 1, Len(elem))

revealElement(e, n) ==
  [e EXCEPT !.style[n] =
              IF e.xdata[n] # NoData
                THEN [display |-> e.xdata[n].originalDisplay,
                      visibility |-> e.xdata[n].originalVisibility]
                ELSE [display |-> "", visibility |-> ""],
            !.xid[n] = 0,
            !.fe = SetDelete(e.fe, n)]

\* filteredElements.forEach of restoreAllElements, entries lo..hi of the set
RECURSIVE revealElementEach(_, _, _, _)
revealElementEach(e, xs, lo, hi) ==
  IF lo > hi THEN e
  ELSE IF lo = hi THEN revealElement(e, xs[lo])
  ELSE LET first == revealElementEach(e, xs, lo, (lo + hi) \div 2)
       IN  IF first.counter >= e.counter
           THEN revealElementEach(first, xs, (lo + hi) \div 2 + 1, hi)
           ELSE first

restoreAllElements(e) ==
  [revealElementEach(e, e.fe, 1, Len(e.fe)) EXCEPT !.fe = <<>>]

\* cleanup that also starts the ids again from 1
cleanupResetCounter(e) ==
  [e EXCEPT !.fe = <<>>,
            !.cache = <<>>,
            !.counter = 0,
            !.xid = [n \in Nodes |-> IF InDocument(n) THEN 0 ELSE e.xid[n]]]

cleanup(e) ==
  [e EXCEPT !.fe = <<>>,
            !.cache = <<>>,
            !.xid = [n \in Nodes |-> IF InDocument(n) THEN 0 ELSE e.xid[n]]]

----------------------------------------------------------------------------
(* Lifecycle                                                               *)

\* a new observer, with a new debounce closure whose timeout is not set
setupObservers(e) ==
  [e EXCEPT !.observers = @ + 1, !.debounce = NoTimer]

\* clearInterval of the interval this.periodicScanInterval holds, if any
clearPeriodic(e) ==
  IF e.periodic # NoTimer
    THEN [e EXCEPT !.periodic = NoTimer, !.intervals = @ - 1]
    ELSE e

setupPeriodicScanning(e) ==
  [clearPeriodic(e) EXCEPT !.periodic = now + periodicScanPeriod, !.intervals = @ + 1]

\* startFiltering without the test of isFiltering
startFilteringAgain(e) ==
  setupPeriodicScanning(
    setupObservers(
      scanExistingContent([e EXCEPT !.filtering = TRUE])))

startFiltering(e) ==
  IF e.filtering THEN scanExistingContent(e)
  ELSE setupPeriodicScanning(
         setupObservers(
           scanExistingContent([e EXCEPT !.filtering = TRUE])))

\* startFiltering when the registration of the observer in setupObservers throws
\* (new MutationObserver, or observe() on a missing content area): whether the
\* registration was reached (failed), whether the exception left the method
\* (thrown), and the engine left behind. No statement of startFiltering or
\* setupObservers catches it, and setupPeriodicScanning comes after.
startFilteringFailing(e) ==
  IF e.filtering
    THEN [failed |-> FALSE, thrown |-> FALSE, engine |-> scanExistingContent(e)]
    ELSE [failed |-> TRUE, thrown |-> TRUE,
          engine |-> scanExistingContent([e EXCEPT !.filtering = TRUE])]

\* disconnect() stops the callbacks of the observer; a timeout its debounce
\* closure has already set stays pending
stopFiltering(e) ==
  LET e1 == [e EXCEPT !.filtering = FALSE,
                      !.observers = 0,
                      !.orphans = IF e.observers > 0 /\ e.debounce # NoTimer
                                    THEN @ \cup {e.debounce} ELSE @,
                      !.debounce = NoTimer]
  IN cleanup(restoreAllElements(clearPeriodic(e1)))

startIfEnabled(e) ==
  IF e.settings # Null /\ e.settings.enabled THEN startFiltering(e) ELSE e

\* requestSettings: the response to GET_SETTINGS, or its failure
requestSettings(e, ok, data) ==
  IF ok THEN [e EXCEPT !.settings = data] ELSE e

\* case 'UPDATE_FILTERS' of handleMessage
handleMessage(e, msg) ==
  LET e0 == [e EXCEPT !.settings = msg]
      e1 == IF e0.settings.enabled THEN startFiltering(e0) ELSE stopFiltering(e0)
  IN IF e1.settings.enabled THEN scanExistingContent(e1) ELSE e1

\* the callback handed to debounce() in setupObservers
observerCallback(e) ==
  IF canScan(e) THEN scanNewContent(e) ELSE e

\* the callback of setInterval in setupPeriodicScanning
periodicCallback(e) ==
  IF e.settings # Null /\ e.settings.enabled /\ canScan(e)
    THEN scanExistingContent(e) ELSE e

----------------------------------------------------------------------------
(* The pages and the settings the model runs on                            *)

El(tag, parent, testid, alt, src, bg, w, h, display, visibility, dynamic) ==
  [tag |-> tag, parent |-> parent, testid |-> testid, alt |-> alt, src |-> src,
   bg |-> bg, w |-> w, h |-> h, display |-> display, visibility |-> visibility,
   dynamic |-> dynamic]

Src(host, path) == [host |-> host, path |-> path]

\* a timeline with one tweet: a photo, an avatar and a video
SmallPage ==
  << El("BODY", 0, "", "", NoSrc, FALSE, 1200, 900, "", "", FALSE),
     El("ARTICLE", 1, "tweet", "", NoSrc, FALSE, 600, 700, "", "", FALSE),
     El("DIV", 2, "tweetPhoto", "", NoSrc, FALSE, 500, 300, "", "", FALSE),
     El("IMG", 3, "", "Image", Src("pbs.twimg.com", 1), FALSE, 500, 300,
        "block", "visible", TRUE),
     El("IMG", 2, "", "", Src("pbs.twimg.com", 2), FALSE, 48, 48, "", "", FALSE),
     El("VIDEO", 2, "", "", NoSrc, FALSE, 500, 280, "", "", TRUE) >>

\* a timeline whose photo grid holds more images than the engine's cap
LargePage ==
  << El("BODY", 0, "", "", NoSrc, FALSE, 1200, 900, "", "", FALSE),
     El("ARTICLE", 1, "tweet", "", NoSrc, FALSE, 600, 700, "", "", FALSE),
     El("DIV", 2, "photoGrid", "", NoSrc, FALSE, 500, 300, "", "", FALSE) >>
  \o [i \in 1..(maxFilteredElements + Overflow) |->
        El("IMG", 3, "", "Image", Src("pbs.twimg.com", i), FALSE, 120, 120,
           "", "", FALSE)]

\* a profile's media gallery: a photo grid that holds more images, each with its
\* own src, than the classification cache keeps, above a tweet with its author's
\* picture, which the page marks with data-testid="UserAvatar-Container", and a
\* small video (an animated icon)
CachePage ==
  << El("BODY", 0, "", "", NoSrc, FALSE, 1200, 900, "", "", FALSE),
     El("ARTICLE", 1, "tweet", "", NoSrc, FALSE, 600, 700, "", "", FALSE),
     El("DIV", 1, "photoGrid", "", NoSrc, FALSE, 500, 300, "", "", FALSE),
     El("IMG", 2, "UserAvatar-Container", "", Src("pbs.twimg.com", 0), FALSE,
        120, 120, "", "", FALSE),
     El("VIDEO", 2, "", "", Src("video.twimg.com", 0), FALSE, 64, 64, "", "", FALSE) >>
  \o [i \in 1..(uiCacheLimit + Overflow) |->
        El("IMG", 3, "", "Image", Src("pbs.twimg.com", i), FALSE,
           IF i % 2 = 0 THEN 120 ELSE 48, IF i % 2 = 0 THEN 120 ELSE 48,
           "", "", FALSE)]

\* a timeline that has loaded more nodes than one incremental pass takes: a photo
\* grid whose last image the page inserts and removes. The grid shows its first
\* picture twice, from one src: as a 48x48 thumbnail and at the size of the
\* others.
IncrementalPage ==
  << El("BODY", 0, "", "", NoSrc, FALSE, 1200, 900, "", "", FALSE),
     El("ARTICLE", 1, "tweet", "", NoSrc, FALSE, 600, 700, "", "", FALSE),
     El("DIV", 1, "photoGrid", "", NoSrc, FALSE, 500, 300, "", "", FALSE) >>
  \o [i \in 1..(scanNewContentLimit + Overflow) |->
        El("IMG", 3, "", "Image", Src("pbs.twimg.com", IF i = 2 THEN 1 ELSE i), FALSE,
           IF i = 1 THEN 48 ELSE 120, IF i = 1 THEN 48 ELSE 120,
           "", "", i = scanNewContentLimit + Overflow)]

\* every configuration snapshot
SettingsSpace ==
  [enabled : BOOLEAN,
   filterMode : {"videos", "images", "both"},
   intensityLevel : {"permissive", "moderate", "strict"},
   whitelistedDomains : SUBSET Domains,
   blacklistedDomains : SUBSET Domains]

DefaultSettings ==
  [enabled |-> TRUE, filterMode |-> "both", intensityLevel |-> "moderate",
   whitelistedDomains |-> {}, blacklistedDomains |-> {}]

\* the snapshots the background sends in the model: the defaults, the defaults
\* with one field changed, and the denied domain under the permissive level
SentSettings ==
  { DefaultSettings,
    [DefaultSettings EXCEPT !.enabled = FALSE],
    [DefaultSettings EXCEPT !.filterMode = "images"],
    [DefaultSettings EXCEPT !.filterMode = "videos"],
    [DefaultSettings EXCEPT !.intensityLevel = "permissive"],
    [DefaultSettings EXCEPT !.whitelistedDomains = {hostname}],
    [DefaultSettings EXCEPT !.intensityLevel = "permissive",
                            !.blacklistedDomains = {hostname}] }

Setting(enabled, mode, level) ==
  [enabled |-> enabled, filterMode |-> mode, intensityLevel |-> level,
   whitelistedDomains |-> {}, blacklistedDomains |-> {}]

LargePageSettings ==
  { Setting(TRUE, "both", "moderate"),
    Setting(TRUE, "images", "permissive"),
    Setting(FALSE, "both", "moderate") }

Dynamic == {n \in Nodes : elem[n].dynamic}

----------------------------------------------------------------------------
(* The background service worker: storage, settings and statistics         *)

\* a key without a value in a storage area
Absent == [absent |-> TRUE]

\* a value held under a key
Stored(x) == [v |-> x]

\* SettingsManager.defaultSettings; the arrays are sequences. showPlaceholders,
\* showClickToReveal, customRules and version are stored and read like these.
defaultSettings ==
  [enabled |-> TRUE, filterMode |-> "both", intensityLevel |-> "moderate",
   whitelistedDomains |-> <<>>, blacklistedDomains |-> <<>>]

SettingKeys == DOMAIN defaultSettings

\* the keys of chrome.storage.sync in the model: the settings and one key that
\* is not a setting
StorageKeys == SettingKeys \cup {"theme"}

\* chrome.storage.sync.get(defaults): the stored value of each key of
\* defaults, or its default
storageSyncGet(store, defaults) ==
  [k \in DOMAIN defaults |-> IF store[k] = Absent THEN defaults[k] ELSE store[k].v]

\* a set that replaces the whole area by items
storageSyncSetReplace(store, items) ==
  [k \in StorageKeys |-> IF k \in DOMAIN items THEN Stored(items[k]) ELSE Absent]

\* chrome.storage.sync.set(items): the keys of items are overwritten, the
\* other keys are kept
storageSyncSet(store, items) ==
  [k \in StorageKeys |-> IF k \in DOMAIN items THEN Stored(items[k]) ELSE store[k]]

\* chrome.storage.sync.clear()
storageSyncClear(store) == [k \in StorageKeys |-> Absent]

\* SettingsManager.getAll
getAll(store) == storageSyncGet(store, defaultSettings)

\* SettingsManager.init, up to its write: { ...defaultSettings, ...stored }
mergedSettings(store) ==
  [k \in SettingKeys |-> storageSyncGet(store, defaultSettings)[k]]

\* the domains of the statistics
StatDomains == {"x.com", "youtube.com"}

ZeroCounts == [videos |-> 0, images |-> 0, total |-> 0]

\* StatsTracker.getDefaultStats; createdAt and lastUpdated are time stamps the
\* model leaves out, performanceMetrics are moving averages it leaves out
getDefaultStats ==
  [totalContentFiltered |-> 0, videosFiltered |-> 0, imagesFiltered |-> 0,
   dailyStats |-> Absent, domainStats |-> [d \in StatDomains |-> Absent]]

\* StatsTracker.getStats: result[this.statsKey] || this.getDefaultStats()
getStats(stored) == IF stored = Absent THEN getDefaultStats ELSE stored

\* data.count || 1 (0 stands for a count that is absent or 0)
countOf(data) == IF data.count = 0 THEN 1 ELSE data.count

\* one { videos, images, total } entry after the event
addCounts(entry, data) ==
  LET c == IF entry = Absent THEN ZeroCounts ELSE entry IN
  [total |-> c.total + countOf(data),
   videos |-> IF data.type = "video" THEN c.videos + countOf(data) ELSE c.videos,
   images |-> IF data.type = "image" THEN c.images + countOf(data) ELSE c.images]

\* recordFiltering that adds 1 to the totals for every event, whatever its count
recordFilteringStatsTotalByOne(stats, data) ==
  [totalContentFiltered |-> stats.totalContentFiltered + 1,
   videosFiltered |-> IF data.type = "video"
                        THEN stats.videosFiltered + countOf(data)
                        ELSE stats.videosFiltered,
   imagesFiltered |-> IF data.type = "image"
                        THEN stats.imagesFiltered + countOf(data)
                        ELSE stats.imagesFiltered,
   dailyStats |-> addCounts(stats.dailyStats, data),
   domainStats |-> [d \in StatDomains |->
                      IF data.domain = d THEN addCounts(stats.domainStats[d], data)
                      ELSE stats.domainStats[d]]]

\* StatsTracker.recordFiltering between its read and its write: the statistics
\* it is going to store. dailyStats holds the entry of today.
recordFilteringStats(stats, data) ==
  [totalContentFiltered |-> stats.totalContentFiltered + countOf(data),
   videosFiltered |-> IF data.type = "video"
                        THEN stats.videosFiltered + countOf(data)
                        ELSE stats.videosFiltered,
   imagesFiltered |-> IF data.type = "image"
                        THEN stats.imagesFiltered + countOf(data)
                        ELSE stats.imagesFiltered,
   dailyStats |-> addCounts(stats.dailyStats, data),
   domainStats |-> [d \in StatDomains |->
                      IF data.domain = d THEN addCounts(stats.domainStats[d], data)
                      ELSE stats.domainStats[d]]]

----------------------------------------------------------------------------
(* The background service worker: handleMessage                            *)

NoValue == [none |-> TRUE]

\* a message: null (isNull), or an object with type, key, value and data, each
\* of which can be missing ("" for type and key, NoValue for value and data)
Message(type, key, value, data) ==
  [isNull |-> FALSE, type |-> type, key |-> key, value |-> value, data |-> data]

NullMessage ==
  [isNull |-> TRUE, type |-> "", key |-> "", value |-> NoValue, data |-> NoValue]

Response(success, error, data) == [success |-> success, error |-> error, data |-> data]

\* a call of handleMessage: the message, where the call stands, the value its
\* local variables hold across an await, and the responses it has sent
Call(msg, pc, held, replies) ==
  [msg |-> msg, pc |-> pc, held |-> held, replies |-> replies]

sendResponse(call, response) ==
  [call EXCEPT !.replies = Append(@, response)]

\* a catch block that logs the error and sends nothing
catchErrorSilent(call) == [call EXCEPT !.pc = "done"]

\* the catch block of handleMessage
catchError(call) ==
  [sendResponse(call, Response(FALSE, "Internal error", NoValue)) EXCEPT !.pc = "done"]

\* handleMessage from its start to its first await, or to its end
handleMessageStart(msg) ==
  LET call == Call(msg, "start", NoValue, <<>>)
      answer(r) == [sendResponse(call, r) EXCEPT !.pc = "done"]
      await(pc) == [call EXCEPT !.pc = pc]
  IN
  IF msg.isNull \/ msg.type = ""
    THEN answer(Response(FALSE, "Invalid message format", NoValue))
  ELSE CASE msg.type = "GET_SETTINGS" -> await("getAll")
         [] msg.type = "UPDATE_SETTING" ->
              IF msg.key = ""
                THEN answer(Response(FALSE, "Missing setting key", NoValue))
                ELSE await("set")
         [] msg.type = "RESET_SETTINGS" -> await("clear")
         [] msg.type = "GET_STATS" -> await("getStats")
         [] msg.type = "CONTENT_FILTERED" ->
              IF msg.data = NoValue
                THEN answer(Response(TRUE, "", NoValue))
                ELSE await("recordGet")
         [] msg.type = "PERFORMANCE_DATA" ->
              IF msg.data = NoValue
                THEN answer(Response(TRUE, "", NoValue))
                ELSE await("performanceGet")
         [] OTHER -> answer(Response(FALSE, "Unknown message type", NoValue))

\* handleMessage from the await it stands at to the next one, or to its end,
\* when the awaited operation succeeds: the call, and the storage areas it
\* leaves. updateAllTabs (getAll, tabs.query, the pushes) is one await here.
handleMessageResume(call, store, stats) ==
  LET go(c, st, ss) == [call |-> c, store |-> st, stats |-> ss]
      answer(r) == [sendResponse(call, r) EXCEPT !.pc = "done"]
      await(pc) == [call EXCEPT !.pc = pc]
  IN
  CASE call.pc = "getAll" ->
         go(answer(Response(TRUE, "", getAll(store))), store, stats)
    [] call.pc = "set" ->
         go(await("updateAllTabs"),
            storageSyncSet(store, [k \in {call.msg.key} |-> call.msg.value.v]), stats)
    [] call.pc = "clear" ->
         go(await("initGet"), storageSyncClear(store), stats)
    [] call.pc = "initGet" ->
         go([await("initSet") EXCEPT !.held = mergedSettings(store)], store, stats)
    [] call.pc = "initSet" ->
         go(await("updateAllTabs"), storageSyncSet(store, call.held), stats)
    [] call.pc = "updateAllTabs" ->
         go(answer(Response(TRUE, "", NoValue)), store, stats)
    [] call.pc = "getStats" ->
         go(answer(Response(TRUE, "", getStats(stats))), store, stats)
    [] call.pc = "recordGet" ->
         go([await("recordSet")
               EXCEPT !.held = recordFilteringStats(getStats(stats), call.msg.data)],
            store, stats)
    [] call.pc = "recordSet" ->
         go(answer(Response(TRUE, "", NoValue)), store, call.held)
    [] call.pc = "performanceGet" ->
         go([await("performanceSet") EXCEPT !.held = getStats(stats)], store, stats)
    [] call.pc = "performanceSet" ->
         go(answer(Response(TRUE, "", NoValue)), store, call.held)

----------------------------------------------------------------------------
(* The popup                                                               *)

\* handleWhitelistToggle: the array it sends as the new whitelistedDomains
toggledWhitelist(whitelistedDomains, currentDomain) ==
  IF \E i \in DOMAIN whitelistedDomains : whitelistedDomains[i] = currentDomain
    THEN LET index == CHOOSE i \in DOMAIN whitelistedDomains :
                        /\ whitelistedDomains[i] = currentDomain
                        /\ \A j \in 1..(i - 1) : whitelistedDomains[j] # currentDomain
         IN SubSeq(whitelistedDomains, 1, index - 1)
              \o SubSeq(whitelistedDomains, index + 1, Len(whitelistedDomains))
    ELSE Append(whitelistedDomains, currentDomain)

\* the popup before init() has loaded the settings
ClosedPopup == [settings |-> Null, currentDomain |-> hostname, pending |-> {}]

----------------------------------------------------------------------------
(* Initial states: the constructor has run and init() awaits GET_SETTINGS  *)

InitEngine ==
  /\ style = [n \in Nodes |-> PageStyle(n)]
  /\ xsafeId = [n \in Nodes |-> 0]
  /\ xsafeData = [n \in Nodes |-> NoData]
  /\ scanned = {}
  /\ settings = Null
  /\ filteredElements = <<>>
  /\ isFiltering = FALSE
  /\ uiElementCache = <<>>
  /\ lastScanTime = 0
  /\ elementCounter = 0
  /\ mutationObserver = 0
  /\ periodicScanInterval = NoTimer
  /\ liveIntervals = 0
  /\ debounceTimeout = NoTimer
  /\ orphanTimeouts = {}
  /\ initPc = "requestSettings"
  /\ initTimeout = NoTimer
  /\ updates = 0
  /\ newest = Null
  /\ mutations = 0
  /\ now = scanCooldown    \* any Date.now() is at least scanCooldown after time 0

\* the storage after SettingsManager.init() has run on a fresh profile
FreshStorage == storageSyncSet([k \in StorageKeys |-> Absent], defaultSettings)

\* the background has started and no message is in flight; the popup is closed
IdleBackground ==
  /\ syncStorage = FreshStorage
  /\ statsStorage = Absent
  /\ calls = <<>>
  /\ popup = ClosedPopup

Init ==
  /\ elem = SmallPage
  /\ removed \in {{}, {n \in DOMAIN SmallPage : SmallPage[n].dynamic}}
  /\ InitEngine
  /\ IdleBackground

InitLarge ==
  /\ elem = LargePage
  /\ removed = {}
  /\ InitEngine
  /\ IdleBackground

InitCache ==
  /\ elem = CachePage
  /\ removed = {}
  /\ InitEngine
  /\ IdleBackground

InitIncremental ==
  /\ elem = IncrementalPage
  /\ removed = {}
  /\ InitEngine
  /\ IdleBackground

----------------------------------------------------------------------------
(* Actions                                                                 *)

PendingTimers ==
  ({periodicScanInterval, debounceTimeout, initTimeout} \ {NoTimer}) \cup orphanTimeouts

\* time passes, up to the next timer that is due; the background answers
\* GET_SETTINGS within the first step of the clock
Tick ==
  /\ now + TickMs <= MaxTime
  /\ initPc # "requestSettings"
  /\ \A t \in PendingTimers : now + TickMs <= t
  /\ now' = now + TickMs
  /\ UNCHANGED <<elem, removed, style, xsafeId, xsafeData, scanned, settings,
                 filteredElements, isFiltering, uiElementCache, lastScanTime,
                 elementCounter, mutationObserver, periodicScanInterval,
                 liveIntervals, debounceTimeout, orphanTimeouts, initPc,
                 initTimeout, updates, newest, mutations, backgroundVars>>

\* init(): the response to GET_SETTINGS arrives, then startIfEnabled() and the
\* delayed second start are set up. The reply holds a snapshot the background
\* read after those of the pushes delivered so far.
ReceiveSettings(ok, s) ==
  /\ initPc = "requestSettings"
  /\ Commit(startIfEnabled(requestSettings(Engine, ok, s)))
  /\ initPc' = "started"
  /\ initTimeout' = now + initDelay
  /\ newest' = IF ok THEN s ELSE newest
  /\ UNCHANGED <<elem, removed, updates, mutations, now>>

\* init(): the response to GET_SETTINGS arrives after a push that the background
\* issued later. The background reads the snapshot of the reply (GET_SETTINGS)
\* and the snapshot of a push (updateAllTabs, handleTabUpdate) in separate
\* tasks, and the two travel by separate channels.
ReceiveStaleSettings(s) ==
  /\ initPc = "requestSettings"
  /\ updates > 0
  /\ Commit(startIfEnabled(requestSettings(Engine, TRUE, s)))
  /\ initPc' = "started"
  /\ initTimeout' = now + initDelay
  /\ UNCHANGED <<envVars, now>>

\* the setTimeout callback of init()
InitTimeoutFire ==
  /\ initTimeout # NoTimer
  /\ initTimeout <= now
  /\ Commit(startIfEnabled(Engine))
  /\ initTimeout' = NoTimer
  /\ initPc' = "done"
  /\ UNCHANGED <<envVars, now>>

\* the message listener receives UPDATE_FILTERS
UpdateFilters(s) ==
  /\ updates < MaxUpdates
  /\ updates' = updates + 1
  /\ newest' = s
  /\ Commit(handleMessage(Engine, s))
  /\ UNCHANGED <<elem, removed, mutations, initPc, initTimeout, now>>

\* the interval of setupPeriodicScanning fires
PeriodicFire ==
  /\ periodicScanInterval # NoTimer
  /\ periodicScanInterval <= now
  /\ Commit([periodicCallback(Engine)
               EXCEPT !.periodic = periodicScanInterval + periodicScanPeriod])
  /\ UNCHANGED <<envVars, initPc, initTimeout, now>>

\* the timeout of the connected observer's debounce closure fires
DebounceFire ==
  /\ debounceTimeout # NoTimer
  /\ debounceTimeout <= now
  /\ Commit(observerCallback([Engine EXCEPT !.debounce = NoTimer]))
  /\ UNCHANGED <<envVars, initPc, initTimeout, now>>

\* a timeout left pending by a disconnected observer's debounce closure fires
OrphanFire ==
  \E t \in orphanTimeouts :
    /\ t <= now
    /\ Commit(observerCallback([Engine EXCEPT !.orphans = @ \ {t}]))
    /\ UNCHANGED <<envVars, initPc, initTimeout, now>>

\* the mutation observer's debounced callback: every call resets the timeout
Observe(e) ==
  IF e.observers > 0 THEN [e EXCEPT !.debounce = now + debounceWait] ELSE e

\* the page inserts an element under the observed area
PageInsert ==
  \E n \in Dynamic \cap removed :
    /\ mutations < MaxMutations
    /\ mutations' = mutations + 1
    /\ removed' = removed \ {n}
    /\ Commit(Observe(Engine))
    /\ UNCHANGED <<elem, updates, newest, initPc, initTimeout, now>>

\* the page removes an element from the observed area
PageRemove ==
  \E n \in Dynamic \ removed :
    /\ mutations < MaxMutations
    /\ mutations' = mutations + 1
    /\ removed' = removed \cup {n}
    /\ Commit(Observe(Engine))
    /\ UNCHANGED <<elem, updates, newest, initPc, initTimeout, now>>

Next ==
  \/ Tick
  \/ \E ok \in BOOLEAN, s \in SentSettings : ReceiveSettings(ok, s)
  \/ InitTimeoutFire
  \/ \E s \in SentSettings : UpdateFilters(s)
  \/ PeriodicFire
  \/ DebounceFire
  \/ OrphanFire
  \/ PageInsert
  \/ PageRemove

Spec == Init /\ [][Next]_vars

NextLarge ==
  \/ Tick
  \/ \E s \in LargePageSettings : ReceiveSettings(TRUE, s)
  \/ InitTimeoutFire
  \/ \E s \in LargePageSettings : UpdateFilters(s)
  \/ PeriodicFire

SpecLarge == InitLarge /\ [][NextLarge]_vars

\* on the page of the cache the background sends the defaults, the videos-only
\* mode, or switches off
CachePageSettings ==
  { Setting(TRUE, "both", "moderate"),
    Setting(TRUE, "videos", "moderate"),
    Setting(FALSE, "both", "moderate") }

NextCache ==
  \/ Tick
  \/ \E s \in CachePageSettings : ReceiveSettings(TRUE, s)
  \/ InitTimeoutFire
  \/ \E s \in CachePageSettings : UpdateFilters(s)
  \/ PeriodicFire

SpecCache == InitCache /\ [][NextCache]_vars

\* the small page without mutations, with replies to GET_SETTINGS that
\* overtake or are overtaken by pushes
NextRace ==
  \/ Tick
  \/ \E ok \in BOOLEAN, s \in SentSettings : ReceiveSettings(ok, s)
  \/ \E s \in SentSettings : ReceiveStaleSettings(s)
  \/ InitTimeoutFire
  \/ \E s \in SentSettings : UpdateFilters(s)
  \/ PeriodicFire

SpecRace == Init /\ [][NextRace]_vars

\* the page inserts an element under the observed area, as one mutation of a burst
BurstInsert ==
  \E n \in Dynamic \cap removed :
    /\ mutations < MaxBurst
    /\ mutations' = mutations + 1
    /\ removed' = removed \ {n}
    /\ Commit(Observe(Engine))
    /\ UNCHANGED <<elem, updates, newest, initPc, initTimeout, now>>

\* the page removes an element from the observed area, as one mutation of a burst
BurstRemove ==
  \E n \in Dynamic \ removed :
    /\ mutations < MaxBurst
    /\ mutations' = mutations + 1
    /\ removed' = removed \cup {n}
    /\ Commit(Observe(Engine))
    /\ UNCHANGED <<elem, updates, newest, initPc, initTimeout, now>>

\* on the page of the bursts the background sends the defaults or switches off
BurstSettings ==
  { Setting(TRUE, "both", "moderate"), Setting(FALSE, "both", "moderate") }

\* the small page under bursts of mutations
NextBurst ==
  \/ Tick
  \/ \E s \in BurstSettings : ReceiveSettings(TRUE, s)
  \/ InitTimeoutFire
  \/ \E s \in BurstSettings : UpdateFilters(s)
  \/ PeriodicFire
  \/ DebounceFire
  \/ OrphanFire
  \/ BurstInsert
  \/ BurstRemove

SpecBurst == Init /\ [][NextBurst]_vars

\* the page of the incremental passes under bursts of mutations
SpecIncremental == InitIncremental /\ [][NextBurst]_vars

----------------------------------------------------------------------------
(* Actions of the background                                               *)

\* the page of the content script stays as it is
ContentIdle ==
  /\ elem = SmallPage
  /\ removed = {}
  /\ InitEngine

\* the listener of chrome.runtime.onMessage calls handleMessage, which runs to
\* its first await
ReceiveMessage(msg) ==
  /\ Len(calls) < MaxMessages
  /\ calls' = Append(calls, handleMessageStart(msg))
  /\ UNCHANGED <<contentVars, syncStorage, statsStorage, popup>>

\* the operation a call awaits completes and the call runs to its next await
ResumeCall ==
  \E i \in DOMAIN calls :
    /\ calls[i].pc # "done"
    /\ \E r \in {handleMessageResume(calls[i], syncStorage, statsStorage)} :
         /\ calls' = [calls EXCEPT ![i] = r.call]
         /\ syncStorage' = r.store
         /\ statsStorage' = r.stats
    /\ UNCHANGED <<contentVars, popup>>

\* the operation a call awaits rejects and the call runs its catch block
FailCall ==
  \E i \in DOMAIN calls :
    /\ calls[i].pc # "done"
    /\ calls' = [calls EXCEPT ![i] = catchError(calls[i])]
    /\ UNCHANGED <<contentVars, syncStorage, statsStorage, popup>>

\* the events the content script reports
FilteringData ==
  { [type |-> "video", count |-> 2, domain |-> "x.com"],
    [type |-> "image", count |-> 0, domain |-> ""],
    [type |-> "image", count |-> 1, domain |-> "youtube.com"] }

\* the messages the background receives in the model
BackgroundMessages ==
  { NullMessage,
    Message("", "", NoValue, NoValue),
    Message("PING", "", NoValue, NoValue),
    Message("GET_SETTINGS", "", NoValue, NoValue),
    Message("UPDATE_SETTING", "", Stored(FALSE), NoValue),
    Message("UPDATE_SETTING", "enabled", Stored(FALSE), NoValue),
    Message("UPDATE_SETTING", "filterMode", Stored("videos"), NoValue),
    Message("UPDATE_SETTING", "whitelistedDomains", Stored(<<hostname>>), NoValue),
    Message("UPDATE_SETTING", "theme", Stored("dark"), NoValue),
    Message("RESET_SETTINGS", "", NoValue, NoValue),
    Message("GET_STATS", "", NoValue, NoValue),
    Message("CONTENT_FILTERED", "", NoValue, NoValue),
    Message("PERFORMANCE_DATA", "", NoValue, NoValue),
    Message("PERFORMANCE_DATA", "", NoValue, Stored("metrics")) }
  \cup {Message("CONTENT_FILTERED", "", NoValue, d) : d \in FilteringData}

InitBackground ==
  /\ ContentIdle
  /\ IdleBackground

NextBackground ==
  \/ \E msg \in BackgroundMessages : ReceiveMessage(msg)
  \/ ResumeCall
  \/ FailCall

SpecBackground == InitBackground /\ [][NextBackground]_vars

----------------------------------------------------------------------------
(* Actions of the popup                                                    *)

\* a request of the popup that awaits its response: the call, and for
\* updateSetting the key and the value sent ("" and NoValue for loadSettings)
Pending(call, key, value) == [call |-> call, key |-> key, value |-> value]

\* init() calls loadSettings, once: it sends GET_SETTINGS
PopupLoadSettings ==
  /\ calls = <<>>
  /\ calls' = Append(calls, handleMessageStart(Message("GET_SETTINGS", "", NoValue, NoValue)))
  /\ popup' = [popup EXCEPT !.pending = {Pending(Len(calls) + 1, "", NoValue)}]
  /\ UNCHANGED <<contentVars, syncStorage, statsStorage>>

\* a click on the whitelist button: handleWhitelistToggle up to the await in
\* updateSetting
PopupWhitelistToggle ==
  /\ popup.settings # Null
  /\ Cardinality({i \in DOMAIN calls : calls[i].msg.type = "UPDATE_SETTING"}) < MaxClicks
  /\ \E list \in {toggledWhitelist(popup.settings.whitelistedDomains,
                                      popup.currentDomain)} :
       /\ calls' = Append(calls, handleMessageStart(
                      Message("UPDATE_SETTING", "whitelistedDomains", Stored(list), NoValue)))
       /\ popup' = [popup EXCEPT !.pending =
                      @ \cup {Pending(Len(calls) + 1, "whitelistedDomains", Stored(list))}]
  /\ UNCHANGED <<contentVars, syncStorage, statsStorage>>

\* the response arrives: loadSettings stores response.data, updateSetting
\* stores the value it sent; a response without success changes nothing
PopupReceive ==
  \E p \in popup.pending :
    /\ calls[p.call].pc = "done"
    /\ \E response \in {calls[p.call].replies[1]} :
         popup' = [popup EXCEPT
                     !.pending = @ \ {p},
                     !.settings = IF ~response.success THEN @
                                  ELSE IF p.key = "" THEN response.data
                                  ELSE [@ EXCEPT ![p.key] = p.value.v]]
    /\ UNCHANGED <<contentVars, syncStorage, statsStorage, calls>>

\* the second domain of the lists
OtherDomain == "example.com"

\* the whitelists stored when the popup opens: each domain at most once
Whitelists ==
  { <<>>, <<hostname>>, <<OtherDomain>>, <<hostname, OtherDomain>>,
    <<OtherDomain, hostname>> }

InitPopup ==
  /\ ContentIdle
  /\ \E list \in Whitelists :
       syncStorage = storageSyncSet(FreshStorage, [whitelistedDomains |-> list])
  /\ statsStorage = Absent
  /\ calls = <<>>
  /\ popup = ClosedPopup

NextPopup ==
  \/ PopupLoadSettings
  \/ PopupWhitelistToggle
  \/ PopupReceive
  \/ ResumeCall
  \/ FailCall

SpecPopup == InitPopup /\ [][NextPopup]_vars

----------------------------------------------------------------------------
(* The content script on a page whose images load after they are inserted  *)

\* a timeline with one tweet of two photos, once the photos have loaded
LoadedPage ==
  << El("BODY", 0, "", "", NoSrc, FALSE, 1200, 900, "", "", FALSE),
     El("ARTICLE", 1, "tweet", "", NoSrc, FALSE, 600, 700, "", "", FALSE),
     El("DIV", 2, "tweetPhoto", "", NoSrc, FALSE, 500, 300, "", "", FALSE),
     El("IMG", 3, "", "Image", Src("pbs.twimg.com", 1), FALSE, 500, 300, "", "", FALSE),
     El("IMG", 3, "", "Image", Src("pbs.twimg.com", 2), FALSE, 500, 300, "", "", FALSE) >>

\* the same timeline before the photos have loaded: an image that has no data
\* yet has an empty box
LazyPage ==
  [n \in DOMAIN LoadedPage |->
     IF LoadedPage[n].tag = "IMG" THEN [LoadedPage[n] EXCEPT !.w = 0, !.h = 0]
     ELSE LoadedPage[n]]

InitLazy ==
  /\ elem = LazyPage
  /\ removed = {}
  /\ InitEngine
  /\ IdleBackground

\* an image's data arrive and the page lays it out at its rendered size; no
\* node is added or removed, so the observer is not called
PageLayout ==
  \E n \in Nodes :
    /\ elem[n] # LoadedPage[n]
    /\ elem' = [elem EXCEPT ![n] = LoadedPage[n]]
    /\ Commit(Engine)
    /\ UNCHANGED <<removed, updates, newest, mutations, initPc, initTimeout, now>>

NextLazy ==
  \/ Tick
  \/ \E s \in BurstSettings : ReceiveSettings(TRUE, s)
  \/ InitTimeoutFire
  \/ \E s \in BurstSettings : UpdateFilters(s)
  \/ PeriodicFire
  \/ PageLayout

\* the background answers GET_SETTINGS
ReplyArrives == \E s \in BurstSettings : ReceiveSettings(TRUE, s)

\* weak fairness of the action A, whose steps all change vars and which is
\* enabled exactly in the states of `due`
\*   WF_vars(A) == []<>~ENABLED <<A>>_vars \/ []<><<A>>_vars
\* the reply is due until it has arrived, a timer from its time on; every such
\* step moves initPc, initTimeout or periodicScanInterval
ReplyFair == []<>(initPc # "requestSettings") \/ []<><<ReplyArrives>>_vars

InitTimeoutFair ==
  []<>~(initTimeout # NoTimer /\ initTimeout <= now) \/ []<><<InitTimeoutFire>>_vars

PeriodicFair ==
  []<>~(periodicScanInterval # NoTimer /\ periodicScanInterval <= now)
    \/ []<><<PeriodicFire>>_vars

\* the background answers, the event loop runs a timer's callback once it is
\* due, and time passes
SpecLazy ==
  /\ InitLazy
  /\ [][NextLazy]_vars
  /\ WF_vars(Tick)
  /\ ReplyFair
  /\ InitTimeoutFair
  /\ PeriodicFair

----------------------------------------------------------------------------
(* Properties                                                              *)

\* the engine under another configuration snapshot
WithSettings(s) == [Engine EXCEPT !.settings = s]

\* the engine e holds no more records than the current state, and the node n
\* has in it the visibility, the marker and the captured original it has now
Untouched(e, n) ==
  /\ e.counter = elementCounter
  /\ e.fe = filteredElements
  /\ e.style[n] = style[n]
  /\ e.xid[n] = xsafeId[n]
  /\ e.xdata[n] = xsafeData[n]

\* the configuration in force has enabled = false
Disabled == settings # Null /\ ~settings.enabled

\* the visibility state captured in the node's _xsafeData
Captured(n) ==
  [display |-> xsafeData[n].originalDisplay,
   visibility |-> xsafeData[n].originalVisibility]

\* C1: whenever a full scan starts with more than maxFilteredElements records
\* and a node's record leaves filteredElements in it (limitFilteredElements),
\* the node is back in the visibility state captured for it: no evicted node
\* stays hidden.
C1_EvictionRestores ==
  [][\A n \in Nodes :
       ( /\ Len(filteredElements) > maxFilteredElements
         /\ lastScanTime' # lastScanTime
         /\ n \in Range(filteredElements)
         /\ n \notin Range(filteredElements') )
       => style'[n] = Captured(n)]_vars

\* C2: in every reachable state, the end of a single scan included,
\* filteredElements holds at most maxFilteredElements nodes.
C2_CapHolds == Len(filteredElements) <= maxFilteredElements

\* C3: for every node that is concealed and still attached, revealElement
\* returns display and visibility to exactly the values the node had before the
\* engine first concealed it (the page's own inline style), whatever scans,
\* evictions and re-concealments came in between.
C3_RestoreRoundTrip ==
  \A n \in Range(filteredElements) :
    InDocument(n) => revealElement(Engine, n).style[n] = PageStyle(n)

\* C4: concealing a node that is already concealed is a no-op: filterImage,
\* filterVideo and filterBackgroundImage leave the engine and the node as they
\* are (one record, same visibility, same captured original).
C4_ConcealIdempotent ==
  \A n \in Range(filteredElements) :
    /\ Cardinality({i \in DOMAIN filteredElements : filteredElements[i] = n}) = 1
    /\ filterImage(Engine, n) = Engine
    /\ filterVideo(Engine, n) = Engine
    /\ filterBackgroundImage(Engine, n) = Engine

\* C4's case: the configuration never changed and the page never mutated, a
\* first full scan concealed nodes and a second full scan has run over them.
C4_Witness ==
  /\ updates = 0 /\ mutations = 0
  /\ lastScanTime > scanCooldown
  /\ filteredElements # <<>>
  /\ \E n \in Range(filteredElements) : querySelectorAll(videoSelector, n)

\* C5: when the engine has handled UPDATE_FILTERS with enabled = false,
\* filteredElements is empty and every node the engine ever concealed has the
\* visibility state it had before.
C5_DisableSweep ==
  [][(updates' # updates /\ ~settings'.enabled)
       => /\ filteredElements' = <<>>
          /\ \A n \in Nodes : xsafeData'[n] # NoData => style'[n] = PageStyle(n)]_vars

\* C6: while the configuration stays at enabled = false no full scan and no
\* incremental scan runs and no node is concealed, a debounce window pending at
\* the time of the disable included.
C6_NoScanAfterCancel ==
  [][(Disabled /\ Disabled')
       => /\ lastScanTime' = lastScanTime
          /\ scanned' = scanned
          /\ elementCounter' = elementCounter]_vars

\* C7: a step that ends with settings.enabled = false adds no record and hides
\* no node: the conceal paths are no-ops under a disabled configuration.
C7_DisabledConcealsNothing ==
  [][Disabled'
       => /\ elementCounter' = elementCounter
          /\ \A n \in Nodes : n \in Range(filteredElements') => n \in Range(filteredElements)
          /\ \A n \in Nodes : style'[n].display = "none" => style[n].display = "none"]_vars

\* C8: whenever the page's domain is in whitelistedDomains, then for every
\* node, under every filter mode and every intensity level (and with the domain
\* on the deny list or not), the conceal paths are no-ops: no record is added
\* and the node's visibility, marker and captured original stay as they are.
C8_AllowListExemption ==
  (settings # Null /\ hostname \in settings.whitelistedDomains) =>
    \A s \in {t \in SettingsSpace : /\ t.enabled = settings.enabled
                                    /\ t.whitelistedDomains = settings.whitelistedDomains} :
      \A w \in {WithSettings(s)}, n \in Nodes :
        \A f \in {filterImage(w, n)}, g \in {filterVideo(w, n)},
           h \in {filterBackgroundImage(w, n)} :
          Untouched(f, n) /\ Untouched(g, n) /\ Untouched(h, n)

\* C8's case: a full scan has just run under a configuration that allows the
\* domain, over a page that holds a video in the document, and concealed nothing.
C8_Witness ==
  /\ settings # Null /\ settings.enabled /\ isFiltering
  /\ hostname \in settings.whitelistedDomains
  /\ shouldFilterVideos(Engine)
  /\ lastScanTime = now
  /\ filteredElements = <<>>
  /\ \E n \in Nodes : querySelectorAll(videoSelector, n)

\* C9: under a configuration that denies the page's domain and does not allow
\* it, conceal proceeds for every attached node that has no record, the
\* permissive intensity level included.
C9_DenyListOverride ==
  \A n \in Nodes :
    ( /\ settings # Null
      /\ isBlacklisted(Engine, n) /\ ~isWhitelisted(Engine, n)
      /\ InDocument(n) /\ n \notin Range(filteredElements) )
    => /\ n \in Range(filterImage(Engine, n).fe)
       /\ n \in Range(filterVideo(Engine, n).fe)
       /\ n \in Range(filterBackgroundImage(Engine, n).fe)

IsVideoNode(n) == elem[n].tag \in {"VIDEO", "IFRAME"}

\* C11: a step that ends under filterMode = images conceals no video or frame
\* node, by whatever scan path it runs; a full scan under filterMode = both (not
\* whitelisted, not permissive) leaves every attached video or frame node that
\* scanForVideos selects concealed.
C11_ModeFiltering ==
  [][/\ (settings' # Null /\ settings'.filterMode = "images")
          => \A n \in Nodes :
               (IsVideoNode(n) /\ n \in Range(filteredElements'))
                 => n \in Range(filteredElements)
     /\ ( /\ settings' # Null /\ settings'.filterMode = "both"
          /\ hostname \notin settings'.whitelistedDomains
          /\ settings'.intensityLevel # "permissive"
          /\ lastScanTime' # lastScanTime )
          => \A n \in Nodes :
               (IsVideoNode(n) /\ querySelectorAll(videoSelector, n))
                 => n \in Range(filteredElements')]_vars

\* C12: a node that isUIElement reports as UI chrome when a step starts is not
\* concealed by that step, whatever its media type and whatever scan path finds
\* it.
C12_ChromeNeverConcealed ==
  [][\A n \in Nodes :
       (n \notin Range(filteredElements) /\ n \in Range(filteredElements'))
         => ~isUIElement(Engine, n)]_vars

\* the nodes the engine is meant to conceal: images, video players, embedded
\* frames and the containers that carry a background image
IsMediaNode(n) ==
  \/ elem[n].tag \in {"IMG", "VIDEO", "IFRAME"}
  \/ elem[n].bg
  \/ elem[n].testid \in {"videoPlayer", "videoComponent"}

\* C13: only media nodes are concealed: no step conceals a container, the body
\* or the root element because it holds a video or frame, on any scan path.
C13_OnlyMediaConcealed ==
  \A n \in Nodes : (n \in Range(filteredElements) \/ style[n].display = "none")
                     => (IsMediaNode(n) \/ PageStyle(n).display = "none")

\* the cooldown is running: the last executed full scan is less than scanCooldown ago
InCooldown == now - lastScanTime < scanCooldown

\* C14: a full-scan request that arrives less than scanCooldown after the last
\* executed full scan is a silent no-op: scanExistingContent returns the engine as
\* it was, and no step taken in the cooldown executes a scan (lastScanTime stays,
\* no element is concealed); a scan that executes does so at least scanCooldown
\* after the one before it. Requests 0 and 1000 ms apart give one executed scan.
C14_Cooldown ==
  [][/\ InCooldown =>
          /\ scanExistingContent(Engine) = Engine
          /\ lastScanTime' = lastScanTime
          /\ elementCounter' = elementCounter
          /\ Range(filteredElements') \subseteq Range(filteredElements)
     /\ lastScanTime' # lastScanTime =>
          /\ now - lastScanTime >= scanCooldown
          /\ lastScanTime' = now]_vars

\* a second request (the periodic timer's, 1000 ms after the executed scan, and a
\* configuration update's) was made in the cooldown and skipped
C14_Witness ==
  /\ isFiltering
  /\ updates > 0
  /\ lastScanTime = scanCooldown
  /\ now = lastScanTime + TickMs
  /\ periodicScanInterval > now
  /\ InCooldown

\* C15: in every reachable state, that is after every classification call of the
\* step before it has returned, uiElementCache holds at most uiCacheLimit entries,
\* and so it does after one more classification call on any node.
C15_CacheCap ==
  /\ Len(uiElementCache) <= uiCacheLimit
  /\ \A n \in Nodes : Len(isUIElementCache(Engine, n)) <= uiCacheLimit

\* the cache is full and its oldest entry, the first image's, has been evicted
C15_Witness ==
  /\ Len(uiElementCache) = uiCacheLimit
  /\ \E n \in Nodes : elem[n].tag = "IMG" /\ ~MapHas(uiElementCache, cacheKey(Engine, n))

\* the engine after isUIElement(n) has returned
Classified(e, n) == [e EXCEPT !.cache = isUIElementCache(e, n)]

\* C16: classifying the same unchanged node twice in succession returns the same
\* result both times; the first call, when it misses, inserts exactly one entry
\* (after the entries already there, the oldest dropped at the limit), and the
\* second call is a cache hit that leaves the cache as the first left it.
C16_ClassifierStable ==
  \A n \in Nodes :
    \A key \in {cacheKey(Engine, n)}, first \in {isUIElement(Engine, n)},
       once \in {Classified(Engine, n)} :
      /\ isUIElement(once, n) = first
      /\ MapHas(once.cache, key)
      /\ isUIElementCache(once, n) = once.cache
      /\ IF MapHas(uiElementCache, key)
           THEN once.cache = uiElementCache
           ELSE \A inserted \in {Append(uiElementCache, <<key, first>>)} :
                  once.cache = (IF Len(inserted) > uiCacheLimit THEN Tail(inserted)
                                ELSE inserted)

\* a scan has classified images, the cache is full, and an image whose entry was
\* evicted is classified twice: a miss that evicts, then a hit
C16_Witness ==
  /\ Len(uiElementCache) = uiCacheLimit
  /\ \E n \in Nodes :
       /\ elem[n].tag = "IMG"
       /\ ~MapHas(uiElementCache, cacheKey(Engine, n))
       /\ MapHas(Classified(Engine, n).cache, cacheKey(Engine, n))
       /\ Len(Classified(Engine, n).cache) = uiCacheLimit

\* C17: on a cache miss the classifier returns true exactly when the node's
\* data-testid or alt contains "avatar" or "profile", compared without regard to
\* case, or else when both its width and its height are below 80.
C17_ClassifyRule ==
  \A n \in Nodes :
    ~MapHas(uiElementCache, cacheKey(Engine, n)) =>
      ( isUIElement(Engine, n)
          <=> \/ LowerContains(elem[n].testid, "avatar")
              \/ LowerContains(elem[n].testid, "profile")
              \/ LowerContains(elem[n].alt, "avatar")
              \/ LowerContains(elem[n].alt, "profile")
              \/ /\ Rect(Engine, n).width < uiSizeThreshold
                 /\ Rect(Engine, n).height < uiSizeThreshold )

\* C18: classification never throws: whichever read of a node property fails
\* (the signature, the attributes or the bounding box), isUIElement catches the
\* failure and returns false.
C18_ClassifyNeverThrows ==
  \A n \in Nodes : \A failing \in Reads :
    \A r \in {isUIElementFailing(Engine, n, failing)} :
      r.failed => (~r.thrown /\ r.value = FALSE)

\* a concealed node still qualifies under the snapshot s: the host is not on the
\* allow list, the level conceals, and the mode covers the type it was concealed as
Qualifies(s, n) ==
  /\ ~isWhitelisted(WithSettings(s), n)
  /\ shouldFilter(WithSettings(s), n, xsafeData[n].type)
  /\ IF xsafeData[n].type = "video" THEN shouldFilterVideos(WithSettings(s))
                                      ELSE shouldFilterImages(WithSettings(s))

\* C19: a configuration update received while filtering that keeps enabled = true
\* restores every concealed node that no longer qualifies under the new policy.
C19_PolicyChangeRestores ==
  [][( /\ updates' # updates
       /\ isFiltering
       /\ settings # Null /\ settings.enabled /\ settings'.enabled )
       => \A n \in Range(filteredElements) :
            ~Qualifies(settings', n)
              => /\ n \notin Range(filteredElements')
                 /\ style'[n] = PageStyle(n)]_vars

\* C20: every configuration update received while filtering that keeps
\* enabled = true executes a full scan under the new policy as part of its
\* handling: the step leaves what an executed scan with the new settings leaves.
C20_UpdateRescans ==
  [][( /\ updates' # updates
       /\ isFiltering
       /\ settings # Null /\ settings.enabled /\ settings'.enabled )
       => \A scan \in {scanExistingContentAlways(WithSettings(settings'))} :
            /\ lastScanTime' = scan.last
            /\ filteredElements' = scan.fe
            /\ style' = scan.style]_vars

\* C21: last writer wins: the engine's configuration is the snapshot the
\* background read last among those delivered, so every scan reads that one; a
\* snapshot delivered by a push is never replaced by an older one, the reply to
\* the GET_SETTINGS of init() included.
C21_LastWriterWins ==
  /\ newest # Null => settings = newest
  /\ updates > 0 => settings # Null

\* C22: any two executed scans of any kind are at least scanCooldown apart: a
\* step that executes a full scan (lastScanTime changes) or an incremental scan
\* (nodes receive the scanned marker) starts no sooner than scanCooldown after
\* the last executed scan, and is the last executed scan from then on.
C22_ScansApart ==
  [][(lastScanTime' # lastScanTime \/ scanned' # scanned)
       => /\ now - lastScanTime >= scanCooldown
          /\ lastScanTime' = now]_vars

\* C23: no duplicate registration: whatever startIfEnabled calls and pushes have
\* been handled, at most one mutation observer is connected and at most one
\* periodic timer is set, and none of either while the engine is stopped.
C23_NoDuplicateRegistration ==
  /\ mutationObserver <= 1
  /\ liveIntervals <= 1
  /\ (periodicScanInterval # NoTimer) <=> (liveIntervals = 1)
  /\ ~isFiltering =>
       mutationObserver = 0 /\ liveIntervals = 0 /\ periodicScanInterval = NoTimer

\* the engine was enabled, stopped with a debounce timeout pending, enabled
\* again, and the delayed startIfEnabled of init() has run on the started engine
C23_Witness ==
  /\ isFiltering
  /\ orphanTimeouts # {}
  /\ initPc = "done"
  /\ updates = MaxUpdates
  /\ mutationObserver = 1
  /\ liveIntervals = 1

\* C24: teardown clears everything: when the engine has handled a push with
\* enabled = false, the classification cache is empty and no node in the
\* document carries an engine marker (data-xsafe-id, data-xsafe-scanned).
C24_TeardownClears ==
  [][(updates' # updates /\ ~settings'.enabled)
       => /\ uiElementCache' = <<>>
          /\ \A n \in Nodes : InDocument(n) => (xsafeId'[n] = 0 /\ n \notin scanned')]_vars

\* C25: every activation (isFiltering going from false to true: the first start,
\* or enabled again after a stop) executes a full scan within the activation
\* step: the step leaves what an executed scan with the settings in force leaves.
C25_ActivationScans ==
  [][(~isFiltering /\ isFiltering')
       => \A scan \in {scanExistingContentAlways(WithSettings(settings'))} :
            /\ lastScanTime' = scan.last
            /\ filteredElements' = scan.fe
            /\ style' = scan.style]_vars

\* C26: when the registration of the mutation observer fails during a start, the
\* failure does not leave the engine, and the engine ends up active with the
\* periodic full scans running.
C26_ObserverFailureDegrades ==
  ~isFiltering =>
    \A s \in {t \in SentSettings : t.enabled} :
      \A r \in {startFilteringFailing(WithSettings(s))} :
        r.failed => /\ ~r.thrown
                    /\ r.engine.filtering
                    /\ r.engine.intervals = 1
                    /\ r.engine.periodic # NoTimer

\* the timeout of the connected observer's debounce closure fires in this step
DebounceFired ==
  /\ debounceTimeout # NoTimer
  /\ debounceTimeout' = NoTimer
  /\ orphanTimeouts' = orphanTimeouts
  /\ updates' = updates

\* the timeout t left by a disconnected observer's debounce closure fires in this step
OrphanFired(t) ==
  /\ t \in orphanTimeouts
  /\ orphanTimeouts' = orphanTimeouts \ {t}
  /\ debounceTimeout' = debounceTimeout
  /\ updates' = updates

\* two debounce timeouts set by mutations less than debounceWait apart
SameBurst(t, u) == t - u < debounceWait /\ u - t < debounceWait

Unscanned == {x \in Nodes : InDocument(x) /\ x \notin scanned}

\* C28: an incremental pass marks at most scanNewContentLimit nodes, however many
\* unscanned nodes the document holds, and leaves the nodes beyond the limit
\* unmarked.
C28_PassCap ==
  [][ /\ Cardinality(scanned' \ scanned) <= scanNewContentLimit
      /\ scanned' \ scanned \subseteq Unscanned
      /\ (scanned' # scanned /\ Cardinality(Unscanned) > scanNewContentLimit)
           => Cardinality(Unscanned \ scanned')
                = Cardinality(Unscanned) - scanNewContentLimit
    ]_vars

\* a pass has marked as many nodes as the limit allows and left the others
C28_Witness ==
  /\ Cardinality(scanned) = scanNewContentLimit
  /\ Unscanned # {}
  /\ isFiltering

\* the nodes an incremental pass takes: the unscanned ones, in document order,
\* up to the limit
NextPass ==
  {x \in Unscanned : Cardinality({y \in Unscanned : y < x}) < scanNewContentLimit}

\* a debounce timeout fires in this step and its callback runs scanNewContent
IncrementalPassStep ==
  /\ canScan(Engine)
  /\ DebounceFired \/ \E t \in orphanTimeouts : OrphanFired(t)

\* C29: a node an incremental pass has examined carries the marker from then
\* on, and a later pass does not examine it again: a pass takes unmarked nodes
\* only and leaves every marked node as it was.
C29_MarkedOnce ==
  [][ /\ scanned \subseteq scanned'
      /\ IncrementalPassStep
           => /\ scanned' = scanned \cup NextPass
              /\ \A n \in scanned : /\ style'[n] = style[n]
                                    /\ xsafeId'[n] = xsafeId[n]
                                    /\ xsafeData'[n] = xsafeData[n]
    ]_vars

\* a second pass has run in the activation and taken the nodes the first left
C29_Witness ==
  /\ Cardinality(scanned) > scanNewContentLimit
  /\ Unscanned = {}
  /\ isFiltering

\* null, the nodes without a parent and the nodes outside the document
Unattached == {0} \cup {n \in Nodes : n \in removed \/ ~InDocument(n)}

\* C30: concealment attempted on null, on a node without a parent or on a node
\* outside the document skips the node: no record is added, no id is assigned,
\* the id counter does not advance, nothing else of the engine changes, and the
\* attempt returns.
C30_UnattachedSkipped ==
  \A n \in Unattached : \A type \in {"video", "image"} :
    \A r \in {replaceElement(Engine, n, type)} :
      /\ r.fe = filteredElements
      /\ r.xid = xsafeId
      /\ r.counter = elementCounter
      /\ r = Engine

\* the engine conceals media of a document from which the page has taken media
\* out: the nodes taken out carry no id and no record
C30_Witness ==
  /\ isFiltering
  /\ filteredElements # <<>>
  /\ \E n \in removed : /\ IsMediaNode(n)
                        /\ xsafeId[n] = 0
                        /\ n \notin Range(filteredElements)

\* the nodes the engine has concealed at some time
EverConcealed == {n \in Nodes : xsafeData[n] # NoData}

\* the nodes concealed first: a scan conceals in document order
EarliestConcealed(k) ==
  {n \in EverConcealed : Cardinality({m \in EverConcealed : m < n}) < k}

\* C31: records leave filteredElements oldest-inserted-first: once more distinct
\* qualifying nodes than maxFilteredElements have been concealed, the set holds
\* exactly maxFilteredElements nodes, and the nodes absent are the earliest
\* concealed ones.
C31_EvictionOrder ==
  Cardinality(EverConcealed) > maxFilteredElements
    => /\ Len(filteredElements) = maxFilteredElements
       /\ Range(filteredElements)
            = EverConcealed
                \ EarliestConcealed(Cardinality(EverConcealed) - maxFilteredElements)

\* C32: when the insertion of a new classification takes uiElementCache past
\* uiCacheLimit entries, exactly one entry leaves it, the oldest inserted, and
\* the others keep their order with the new entry last; a cache hit leaves the
\* entries and their order as they are.
C32_CacheEvictionOrder ==
  \A n \in Nodes :
    \A key \in {cacheKey(Engine, n)}, after \in {isUIElementCache(Engine, n)} :
      IF MapHas(uiElementCache, key)
        THEN after = uiElementCache
        ELSE /\ after[Len(after)][1] = key
             /\ IF Len(uiElementCache) = uiCacheLimit
                  THEN /\ Len(after) = uiCacheLimit
                       /\ SubSeq(after, 1, uiCacheLimit - 1) = Tail(uiElementCache)
                  ELSE SubSeq(after, 1, Len(after) - 1) = uiElementCache

\* the cache is full, one image hits it and another, evicted before, misses it:
\* classifying the second evicts the oldest entry, which is not the first's
C32_Witness ==
  /\ Len(uiElementCache) = uiCacheLimit
  /\ \E hit, miss \in Nodes :
       /\ MapHas(uiElementCache, cacheKey(Engine, hit))
       /\ uiElementCache[1][1] # cacheKey(Engine, hit)
       /\ ~MapHas(uiElementCache, cacheKey(Engine, miss))
       /\ ~MapHas(isUIElementCache(Engine, miss), uiElementCache[1][1])
       /\ MapHas(isUIElementCache(Engine, miss), cacheKey(Engine, hit))

\* the nodes concealed in this step: replaceElement stores a new record on them
ConcealedNow == {n \in Nodes : xsafeData'[n] # xsafeData[n]}

\* C33: every concealment assigns an id above every id assigned before it in
\* the session: the counter never goes back, the ids assigned in a step lie
\* above the counter's value before the step, and no two of them are equal, so
\* no two concealments share an id, whatever disable/enable cycles and
\* re-concealments of a node lie between them.
C33_FreshIds ==
  [][ /\ elementCounter' >= elementCounter
      /\ \A n \in ConcealedNow :
           /\ xsafeData'[n].elementId > elementCounter
           /\ xsafeData'[n].elementId <= elementCounter'
           /\ xsafeId'[n] = xsafeData'[n].elementId
           /\ \A m \in ConcealedNow \ {n} :
                xsafeData'[m].elementId # xsafeData'[n].elementId
      /\ \A n \in Nodes : xsafeId'[n] # 0 => xsafeId'[n] <= elementCounter'
    ]_vars

\* a node concealed, revealed by a disable and concealed again holds the newest
\* id, which is above the number of nodes ever concealed
C33_Witness ==
  /\ isFiltering
  /\ updates = MaxUpdates
  /\ elementCounter > Cardinality(EverConcealed)
  /\ \E n \in Nodes : xsafeId[n] = elementCounter /\ n \in Range(filteredElements)

\* the messages handleMessage rejects before any awaited step
Malformed(msg) ==
  \/ msg.isNull
  \/ msg.type = ""
  \/ msg.type \notin {"GET_SETTINGS", "UPDATE_SETTING", "RESET_SETTINGS", "GET_STATS",
                      "CONTENT_FILTERED", "PERFORMANCE_DATA"}
  \/ msg.type = "UPDATE_SETTING" /\ msg.key = ""

\* the call has ended in the catch block
Threw(call) == call.pc = "done" /\ call.replies[1].error = "Internal error"

\* C34: handleMessage sends exactly one response for every message: none while
\* the call is at an await, one when it has ended, never a second; the response
\* has success = false for a null message, a missing type, an unknown type,
\* UPDATE_SETTING without a key and after a step that threw, and success = true
\* otherwise.
C34_OneResponse ==
  \A i \in DOMAIN calls :
    /\ Len(calls[i].replies) = (IF calls[i].pc = "done" THEN 1 ELSE 0)
    /\ calls[i].pc = "done"
         => ( calls[i].replies[1].success
                <=> ~Malformed(calls[i].msg) /\ ~Threw(calls[i]) )

\* every message of the run is answered: one was malformed, one was handled
\* after its awaited step threw
C34_Witness ==
  /\ Len(calls) = MaxMessages
  /\ \A i \in DOMAIN calls : calls[i].pc = "done"
  /\ \E i, j \in DOMAIN calls : /\ Malformed(calls[i].msg)
                                 /\ ~Malformed(calls[j].msg)
                                 /\ Threw(calls[j])

\* C35: handling UPDATE_SETTING(key, value) changes only that key: the step of
\* the call that stores the setting leaves chrome.storage.sync as it was with
\* key mapped to value, and no other step of the call changes the storage.
C35_OnlyThatKey ==
  [][ \A i \in DOMAIN calls :
        (calls[i].msg.type = "UPDATE_SETTING" /\ calls'[i] # calls[i])
          => IF calls[i].pc = "set" /\ calls'[i].pc = "updateAllTabs"
               THEN \A k \in StorageKeys :
                      syncStorage'[k] = (IF k = calls[i].msg.key
                                           THEN Stored(calls[i].msg.value.v)
                                           ELSE syncStorage[k])
               ELSE syncStorage' = syncStorage
    ]_vars

\* an UPDATE_SETTING has been answered with success: the storage holds the new
\* value under its key and what the fresh profile held under every other key
C35_Witness ==
  \E i \in DOMAIN calls :
    /\ calls[i].msg.type = "UPDATE_SETTING"
    /\ calls[i].pc = "done"
    /\ calls[i].replies[1].success
    /\ syncStorage[calls[i].msg.key] = calls[i].msg.value
    /\ syncStorage[calls[i].msg.key] # FreshStorage[calls[i].msg.key]
    /\ \A k \in StorageKeys \ {calls[i].msg.key} : syncStorage[k] = FreshStorage[k]

\* the calls the popup's toggles have made, in order
ToggleCalls == {i \in DOMAIN calls : calls[i].msg.type = "UPDATE_SETTING"}

\* every request of the popup has been answered with success and received
AllSucceeded ==
  /\ popup.pending = {}
  /\ popup.settings # Null
  /\ \A i \in DOMAIN calls : calls[i].pc = "done" /\ calls[i].replies[1].success

\* the whitelist the popup loaded when it opened
LoadedWhitelist == calls[1].replies[1].data.whitelistedDomains

\* C36: a toggle adds the current domain to whitelistedDomains when it is
\* absent and removes it when present, leaving the other domains as they are,
\* so after two successful toggles the list, in the popup and in the storage,
\* is the original list.
C36_ToggleRoundTrip ==
  AllSucceeded =>
    /\ Cardinality(ToggleCalls) = 1 =>
         /\ (popup.currentDomain \in Range(popup.settings.whitelistedDomains))
              <=> (popup.currentDomain \notin Range(LoadedWhitelist))
         /\ Range(popup.settings.whitelistedDomains) \ {popup.currentDomain}
              = Range(LoadedWhitelist) \ {popup.currentDomain}
    /\ Cardinality(ToggleCalls) = 2 =>
         /\ popup.settings.whitelistedDomains = LoadedWhitelist
         /\ syncStorage["whitelistedDomains"] = Stored(LoadedWhitelist)

\* an entry { videos, images, total } adds up
AddsUp(entry) == entry = Absent \/ entry.total = entry.videos + entry.images

\* C37: after any sequence of filtering events of type image or video, the
\* stored totalContentFiltered equals videosFiltered + imagesFiltered, and the
\* total of every domain (and of the day) equals its videos + its images.
C37_TotalsAddUp ==
  statsStorage # Absent =>
    /\ statsStorage.totalContentFiltered
         = statsStorage.videosFiltered + statsStorage.imagesFiltered
    /\ \A d \in StatDomains : AddsUp(statsStorage.domainStats[d])
    /\ AddsUp(statsStorage.dailyStats)

\* two events have been recorded one after the other: a video event of count 2
\* on one domain and an image event on another
C37_Witness ==
  /\ statsStorage # Absent
  /\ \A i \in DOMAIN calls : calls[i].pc = "done"
  /\ statsStorage.videosFiltered = 2
  /\ statsStorage.imagesFiltered = 1
  /\ statsStorage.totalContentFiltered = 3
  /\ \A d \in StatDomains : statsStorage.domainStats[d] # Absent

\* the images the page shows at their own size: attached, and neither they nor
\* an ancestor hidden
Rendered ==
  {n \in Nodes : /\ elem[n].tag = "IMG"
                 /\ InDocument(n)
                 /\ \A m \in {n} \cup Ancestors(n) : style[m].display # "none"}

\* C38: the memoized classifier agrees with the rules: whatever was classified
\* before, isUIElement returns for a node what the markers and the size of that
\* node give; an entry another node of the same src left in the cache does not
\* change the answer.
C38_MemoAgrees ==
  \A n \in Rendered : isUIElement(Engine, n) = uiRules(Engine, n)

\* the engine is Active under a policy for which the attached image n qualifies
\* at its size on the page
Wanted(n) ==
  /\ settings # Null /\ settings.enabled /\ isFiltering
  /\ periodicScanInterval # NoTimer
  /\ InDocument(n) /\ elem[n].tag = "IMG"
  /\ ~uiMarked(n)
  /\ ~(elem[n].w < uiSizeThreshold /\ elem[n].h < uiSizeThreshold)
  /\ shouldFilterImages(Engine)
  /\ ~isWhitelisted(Engine, n)
  /\ shouldFilter(Engine, n, "image")

\* the clock of the model still reaches a firing of the periodic timer that the
\* cooldown lets through
ScanAhead ==
  /\ periodicScanInterval <= MaxTime
  /\ lastScanTime + scanCooldown <= MaxTime

\* C39: while the engine stays Active under a policy for which an attached node
\* qualifies, the node is eventually concealed by the scans of the periodic
\* timer, also when it was first scanned before it had its rendered size.
C39_EventuallyConcealed ==
  \A n \in DOMAIN LoadedPage :
    (Wanted(n) /\ ScanAhead) ~> (n \in Range(filteredElements) \/ ~Wanted(n))

\* the call i has recorded an event: a CONTENT_FILTERED message with data that
\* was answered with success
Recorded(i) ==
  /\ calls[i].msg.type = "CONTENT_FILTERED"
  /\ calls[i].msg.data # NoValue
  /\ calls[i].pc = "done"
  /\ calls[i].replies[1].success

\* the sum of the counts of the events the calls 1..i have recorded
RECURSIVE RecordedCount(_)
RecordedCount(i) ==
  IF i = 0 THEN 0
  ELSE RecordedCount(i - 1)
         + (IF Recorded(i) THEN countOf(calls[i].msg.data) ELSE 0)

\* C40: no update of the statistics is lost: once the handlers of several
\* CONTENT_FILTERED messages have finished, however their storage reads and
\* writes interleaved, the stored totalContentFiltered has grown by the sum of
\* their counts.
C40_NoLostUpdate ==
  (\A i \in DOMAIN calls : calls[i].pc = "done")
    => getStats(statsStorage).totalContentFiltered = RecordedCount(Len(calls))

====
